---- MODULE Spec2Model ----
(***************************************************************************)
(* A model of the You.com -> OpenAI translation gateway (api/main.go).     *)
(*                                                                         *)
(* Strings of the program are TLA+ strings: prefixes are tested and        *)
(* stripped with Len/SubSeq, answer text is built with \o.  A request is   *)
(* one invocation of Handler; its steps are the places where the Go        *)
(* runtime can switch to another request's goroutine or where the          *)
(* invocation waits for the network.  Identifiers and timestamps of the    *)
(* responses (time.Now) are left out: no statement below is about them.    *)
(***************************************************************************)
EXTENDS Naturals, Sequences, FiniteSets, TLC

\* ------------------------------------------------------------------ bounds
\* Requests that may be in flight together.
MaxReq == 2
\* Lines an upstream response body holds at most (decoder runs).
MaxLines == 6
\* Lines an upstream response body holds at most (handler and concurrency runs).
MaxLinesShort == 2
\* Messages of a request body at most.
MaxMsgs == 2

Req == 1..MaxReq

\* ------------------------------------------------------------ string helpers
\* strings.HasPrefix
HasPrefix(s, prefix) ==
    /\ Len(s) >= Len(prefix)
    /\ SubSeq(s, 1, Len(prefix)) = prefix

\* strings.TrimPrefix
TrimPrefix(s, prefix) ==
    IF HasPrefix(s, prefix) THEN SubSeq(s, Len(prefix) + 1, Len(s)) ELSE s

HasSuffix(s, suffix) ==
    /\ Len(s) >= Len(suffix)
    /\ SubSeq(s, Len(s) - Len(suffix) + 1, Len(s)) = suffix

\* ------------------------------------------------------------- model names
modelMap ==
    ("deepseek-reasoner" :> "deepseek_r1") @@
    ("deepseek-chat" :> "deepseek_v3") @@
    ("o3-mini-high" :> "openai_o3_mini_high") @@
    ("o3-mini-medium" :> "openai_o3_mini_medium") @@
    ("o1" :> "openai_o1") @@
    ("o1-mini" :> "openai_o1_mini") @@
    ("o1-preview" :> "openai_o1_preview") @@
    ("gpt-4o" :> "gpt_4o") @@
    ("gpt-4o-mini" :> "gpt_4o_mini") @@
    ("gpt-4-turbo" :> "gpt_4_turbo") @@
    ("gpt-3.5-turbo" :> "gpt_3.5") @@
    ("claude-3-opus" :> "claude_3_opus") @@
    ("claude-3-sonnet" :> "claude_3_sonnet") @@
    ("claude-3.5-sonnet" :> "claude_3_5_sonnet") @@
    ("claude-3.5-haiku" :> "claude_3_5_haiku") @@
    ("gemini-1.5-pro" :> "gemini_1_5_pro") @@
    ("gemini-1.5-flash" :> "gemini_1_5_flash") @@
    ("llama-3.2-90b" :> "llama3_2_90b") @@
    ("llama-3.1-405b" :> "llama3_1_405b") @@
    ("mistral-large-2" :> "mistral_large_2") @@
    ("qwen-2.5-72b" :> "qwen2p5_72b") @@
    ("qwen-2.5-coder-32b" :> "qwen2p5_coder_32b") @@
    ("command-r-plus" :> "command_r_plus") @@
    ("claude-3-7-sonnet" :> "claude_3_7_sonnet") @@
    ("claude-3-7-sonnet-think" :> "claude_3_7_sonnet_thinking")

ModelKeys == DOMAIN modelMap
ModelValues == {modelMap[k] : k \in ModelKeys}

\* getReverseModelMap that fills reverse[k] = v instead of reverse[v] = k.
getReverseModelMapNotReversed ==
    [k \in ModelKeys |-> {modelMap[k]}]

\* getReverseModelMap ranges over modelMap in Go's unspecified map order and
\* lets the last write win: for each upstream name, the keys that can win.
getReverseModelMap ==
    [v \in ModelValues |-> {k \in ModelKeys : modelMap[k] = v}]

\* mapModelName falling back to the model of the session cookie.
mapModelNameOtherDefault(openAIModel) ==
    IF openAIModel \in DOMAIN modelMap
    THEN modelMap[openAIModel]
    ELSE "deepseek_r1"

mapModelName(openAIModel) ==
    IF openAIModel \in DOMAIN modelMap
    THEN modelMap[openAIModel]
    ELSE "deepseek_v3"

\* The set of names reverseMapModelName can return for youModel (one name
\* unless two keys of modelMap share a value).
reverseMapModelName(youModel) ==
    IF youModel \in DOMAIN getReverseModelMap
    THEN getReverseModelMap[youModel]
    ELSE {"deepseek-chat"}

\* --------------------------------------------------------- upstream stream
\* The line that announces a token event, and the prefix of its data line.
EventMarker == "event: youChatToken"
DataPrefix == "data: "

\* The JSON text of a YouChatResponse carrying the token text t.
TokenJSON(t) == "{\"youChatToken\":\"" \o t \o "\"}"

\* json.Unmarshal into a YouChatResponse: the whole text is validated first,
\* so a syntax error leaves the token empty; an object without the field
\* decodes to the empty token.
Unmarshal(text) ==
    IF text = "{}"
    THEN [err |-> FALSE, YouChatToken |-> ""]
    ELSE IF /\ HasPrefix(text, "{\"youChatToken\":\"")
            /\ HasSuffix(text, "\"}")
            /\ Len(text) >= Len("{\"youChatToken\":\"") + Len("\"}")
         THEN [err |-> FALSE,
               YouChatToken |-> SubSeq(text, Len("{\"youChatToken\":\"") + 1,
                                       Len(text) - Len("\"}"))]
         ELSE [err |-> TRUE, YouChatToken |-> ""]

\* The lines an upstream body is made of in the runs below: the marker, two
\* well-formed data lines, a data line whose JSON is cut short, and a JSON
\* token without the "data: " prefix.
TokenTexts == {"Hel", "lo!"}
GoodData == {DataPrefix \o TokenJSON(t) : t \in TokenTexts}
BadData == DataPrefix \o "{\"youChatToken\":\"Hel"
BareJSON == TokenJSON("Hel")
UpstreamLines == {EventMarker} \cup GoodData \cup {BadData, BareJSON}

\* ------------------------------------------------------------------- state
VARIABLES
    pc,             \* pc[r]: where request r's Handler invocation stands
    req,            \* req[r]: the inbound HTTP request
    openAIReq,      \* openAIReq[r]: the decoded request body
    originalModel,  \* the package-level variable, as its two words
    youReq,         \* youReq[r]: the outbound request, once built
    calls,          \* calls[r]: outbound requests attempted (client.Do)
    scanner,        \* scanner[r]: the bufio.Scanner over the upstream body
    lines,          \* lines[r]: the upstream lines delivered so far
    left,           \* left[r]: lines the upstream body may still deliver
    fullResponse,   \* fullResponse[r]: the strings.Builder of the answer
    chunks,         \* chunks[r]: the chunk writes attempted on the client
    connected,      \* connected[r]: the client connection is still open
    response,       \* response[r]: status and body the handler answered with
    fn              \* the last application of a model-name function

vars == <<pc, req, openAIReq, originalModel, youReq, calls, scanner, lines,
          left, fullResponse, chunks, connected, response, fn>>

\* A request body that is no JSON, and the request of a slot that is not used.
InvalidBody == [valid |-> FALSE, messages |-> <<>>, stream |-> FALSE, model |-> ""]
NoRequest == [path |-> "", method |-> "", auth |-> "", body |-> InvalidBody]
NoBody == [Messages |-> <<>>, Stream |-> FALSE, Model |-> ""]
NoYouReq == [built |-> FALSE, q |-> "", pastChatLength |-> 0,
             selectedAiModel |-> "", chatHistory |-> <<>>, chat |-> "",
             DS |-> ""]
\* A response: the status line, the text of a plain body (http.Error and the
\* fixed bodies), and the fields of a chat completion.
Answer(status, text, object, model, content, finish) ==
    [status |-> status, text |-> text, Object |-> object, Model |-> model,
     Content |-> content, FinishReason |-> finish]
Plain(status, text) == Answer(status, text, "", "", "", "")
NoResponse == Plain(0, "")
NewScanner == [done |-> FALSE, err |-> FALSE, tok |-> ""]
NoFn == [name |-> "", arg |-> "", res |-> ""]

\* json.NewDecoder(r.Body).Decode(&openAIReq): fields absent from the JSON
\* keep their zero values.
Decode(body) ==
    IF body.valid
    THEN [err |-> FALSE,
          val |-> [Messages |-> body.messages, Stream |-> body.stream,
                   Model |-> body.model]]
    ELSE [err |-> TRUE, val |-> NoBody]

\* Authorized that only asks for a header.
AuthorizedAnyScheme(authHeader) == authHeader # ""

\* The authorization check (main.go 194-195).
Authorized(authHeader) == HasPrefix(authHeader, "Bearer ")

ChatPaths == {"/v1/chat/completions", "/none/v1/chat/completions",
              "/such/chat/completions"}
ModelPaths == {"/v1/models", "/api/v1/models"}

\* The state every run starts from, given the requests and the length the
\* upstream bodies are bounded by; an absent request is never served.
InitWith(requests, present, maxLines) ==
    /\ req = requests
    /\ pc = [r \in Req |-> IF r \in present THEN "start" ELSE "absent"]
    /\ openAIReq = [r \in Req |-> NoBody]
    /\ originalModel = [p |-> "", l |-> ""]
    /\ youReq = [r \in Req |-> NoYouReq]
    /\ calls = [r \in Req |-> 0]
    /\ scanner = [r \in Req |-> NewScanner]
    /\ lines = [r \in Req |-> <<>>]
    /\ left = [r \in Req |-> maxLines]
    /\ fullResponse = [r \in Req |-> ""]
    /\ chunks = [r \in Req |-> <<>>]
    /\ connected = [r \in Req |-> TRUE]
    /\ response = [r \in Req |-> NoResponse]
    /\ fn = NoFn

\* ----------------------------------------------------------------- Handler
\* EarlyReturn that decodes the body before it checks the authorization.
EarlyReturnDecodeFirst(rq) ==
    IF rq.path \in ModelPaths
    THEN IF rq.method = "OPTIONS"
         THEN Plain(200, "")
         ELSE Plain(200, "model list")
    ELSE IF rq.path \notin ChatPaths
    THEN Plain(200, "You2Api Service Running...")
    ELSE IF rq.method = "OPTIONS"
    THEN Plain(200, "")
    ELSE IF Decode(rq.body).err
    THEN Plain(400, "Invalid request body")
    ELSE IF ~Authorized(rq.auth)
    THEN Plain(401, "Missing or invalid authorization header")
    ELSE NoResponse

\* The response of the first early return a request runs into (main.go
\* 142-206), in the order of the code; NoResponse when it runs into none.
EarlyReturn(rq) ==
    IF rq.path \in ModelPaths
    THEN IF rq.method = "OPTIONS"
         THEN Plain(200, "")
         ELSE Plain(200, "model list")
    ELSE IF rq.path \notin ChatPaths
    THEN Plain(200, "You2Api Service Running...")
    ELSE IF rq.method = "OPTIONS"
    THEN Plain(200, "")
    ELSE IF ~Authorized(rq.auth)
    THEN Plain(401, "Missing or invalid authorization header")
    ELSE IF Decode(rq.body).err
    THEN Plain(400, "Invalid request body")
    ELSE NoResponse

\* Handler up to the decoding of the body (main.go 140-206): an early
\* return, or the decoded body and on to the rest.
HandlerGate(r) ==
    /\ pc[r] = "start"
    /\ LET rq == req[r]
           dec == Decode(rq.body)
           early == EarlyReturn(rq)
       IN  IF early # NoResponse
           THEN /\ response' = [response EXCEPT ![r] = early]
                /\ pc' = [pc EXCEPT ![r] = "done"]
                /\ UNCHANGED openAIReq
           ELSE /\ openAIReq' = [openAIReq EXCEPT ![r] = dec.val]
                /\ pc' = [pc EXCEPT ![r] = "store"]
                /\ UNCHANGED response
    /\ UNCHANGED <<req, originalModel, youReq, calls, scanner, lines, left,
                   fullResponse, chunks, connected, fn>>

\* originalModel = openAIReq.Model (main.go 208).  A Go string is a data
\* pointer and a length; the assignment to the unsynchronised package
\* variable stores the two words one after the other, in either order.
StoreFirstWord(r) ==
    /\ pc[r] = "store"
    /\ \E w \in {"p", "l"} :
        /\ originalModel' = [originalModel EXCEPT ![w] = openAIReq[r].Model]
        /\ pc' = [pc EXCEPT ![r] = IF w = "p" THEN "store_l" ELSE "store_p"]
    /\ UNCHANGED <<req, openAIReq, youReq, calls, scanner, lines, left,
                   fullResponse, chunks, connected, response, fn>>

StoreSecondWord(r) ==
    /\ pc[r] \in {"store_l", "store_p"}
    /\ originalModel' =
          [originalModel EXCEPT ![IF pc[r] = "store_l" THEN "l" ELSE "p"] =
              openAIReq[r].Model]
    /\ pc' = [pc EXCEPT ![r] = "build"]
    /\ UNCHANGED <<req, openAIReq, youReq, calls, scanner, lines, left,
                   fullResponse, chunks, connected, response, fn>>

\* What a read of originalModel can yield: the string, or, while the two
\* words belong to different strings, either of them or bytes of neither.
TornModel == "<torn>"
LoadOriginalModel ==
    IF originalModel.p = originalModel.l
    THEN {originalModel.p}
    ELSE {originalModel.p, originalModel.l, TornModel}

\* ChatMsg that tests for the user role instead of the assistant role.
ChatMsgUserTest(msg) ==
    IF msg.Role = "user"
    THEN [question |-> msg.Content, answer |-> ""]
    ELSE [question |-> "", answer |-> msg.Content]

\* The history record of one message (main.go 214-222).
ChatMsg(msg) ==
    IF msg.Role = "assistant"
    THEN [question |-> "", answer |-> msg.Content]
    ELSE [question |-> msg.Content, answer |-> ""]

\* The chat history of a message list (main.go 212-224), in order.
ChatHistory(messages) == [i \in 1..Len(messages) |-> ChatMsg(messages[i])]

\* json.Marshal of the history: a nil slice is null, a map's keys come out
\* sorted (answer before question).  The contents drawn need no escaping.
RECURSIVE MarshalRecords(_)
MarshalRecords(h) ==
    IF Len(h) = 0 THEN ""
    ELSE "{\"answer\":\"" \o h[1].answer \o "\",\"question\":\"" \o
         h[1].question \o "\"}" \o
         (IF Len(h) > 1 THEN "," ELSE "") \o MarshalRecords(Tail(h))

Marshal(h) == IF Len(h) = 0 THEN "null" ELSE "[" \o MarshalRecords(h) \o "]"

\* LastMessage that takes the first message.
LastMessageFirst(messages) == messages[1].Content

\* lastMessage (main.go 209), for a message list that is not empty.
LastMessage(messages) == messages[Len(messages)].Content

\* Handler from the last-message extraction to the dispatch (main.go
\* 209-282).  Indexing an empty message list is a run-time panic: net/http
\* recovers it and drops the connection, no response is written.
HandlerBuild(r) ==
    /\ pc[r] = "build"
    /\ LET rq == openAIReq[r]
           n == Len(rq.Messages)
           chatHistory == ChatHistory(rq.Messages)
       IN  IF n = 0
           THEN /\ pc' = [pc EXCEPT ![r] = "panic"]
                /\ UNCHANGED youReq
           ELSE /\ youReq' = [youReq EXCEPT ![r] =
                       [built |-> TRUE,
                        q |-> LastMessage(rq.Messages),
                        pastChatLength |-> Len(chatHistory) - 1,
                        selectedAiModel |-> mapModelName(rq.Model),
                        chatHistory |-> chatHistory,
                        chat |-> Marshal(chatHistory),
                        DS |-> TrimPrefix(req[r].auth, "Bearer ")]]
                /\ pc' = [pc EXCEPT ![r] = IF rq.Stream THEN "st_do" ELSE "ns_do"]
    /\ UNCHANGED <<req, openAIReq, originalModel, calls, scanner, lines, left,
                   fullResponse, chunks, connected, response, fn>>

\* ----------------------------------------------------------- bufio.Scanner
\* The outcomes of one scanner.Scan(): a line of the body, the end of the
\* body, or a read error (the non-streaming client's timeout included).  A
\* line cut short by an error is still delivered as a line before Scan
\* reports the end.  After the end Scan returns false and Text() is empty.
ScanResults(r) ==
    IF scanner[r].done
    THEN {[ok |-> FALSE, sc |-> [scanner[r] EXCEPT !.tok = ""]]}
    ELSE {[ok |-> TRUE, sc |-> [done |-> FALSE, err |-> FALSE, tok |-> ln]] :
             ln \in IF left[r] > 0 THEN UpstreamLines ELSE {}}
         \cup {[ok |-> FALSE, sc |-> [done |-> TRUE, err |-> e, tok |-> ""]] :
                 e \in BOOLEAN}

\* TakeScan that leaves the line it returned in the body.
TakeScanRereads(r, o) ==
    /\ scanner' = [scanner EXCEPT ![r] = o.sc]
    /\ lines' = [lines EXCEPT ![r] = IF o.ok THEN Append(@, o.sc.tok) ELSE @]
    /\ left' = left

\* The effect of that Scan on the scanner and on the body.
TakeScan(r, o) ==
    /\ scanner' = [scanner EXCEPT ![r] = o.sc]
    /\ lines' = [lines EXCEPT ![r] = IF o.ok THEN Append(@, o.sc.tok) ELSE @]
    /\ left' = [left EXCEPT ![r] = IF o.ok THEN @ - 1 ELSE @]

\* ------------------------------------------------ handleNonStreamingResponse
\* client.Do (main.go 300-308).
NsDo(r) ==
    /\ pc[r] = "ns_do"
    /\ calls' = [calls EXCEPT ![r] = @ + 1]
    /\ \E ok \in BOOLEAN :
        IF ok
        THEN /\ pc' = [pc EXCEPT ![r] = "ns_scan"]
             /\ UNCHANGED response
        ELSE /\ pc' = [pc EXCEPT ![r] = "done"]
             /\ response' = [response EXCEPT ![r] = Plain(500, "err.Error()")]
    /\ UNCHANGED <<req, openAIReq, originalModel, youReq, scanner, lines, left,
                   fullResponse, chunks, connected, fn>>

\* The loop condition and the marker test (main.go 318-320).
NsScan(r) ==
    /\ pc[r] = "ns_scan"
    /\ \E o \in ScanResults(r) :
        /\ TakeScan(r, o)
        /\ pc' = [pc EXCEPT ![r] =
              IF ~o.ok THEN "ns_end"
              ELSE IF HasPrefix(o.sc.tok, EventMarker) THEN "ns_data"
              ELSE "ns_scan"]
    /\ UNCHANGED <<req, openAIReq, originalModel, youReq, calls, fullResponse,
                   chunks, connected, response, fn>>

\* NsToken without the test of the "data: " prefix.
NsTokenNoPrefixTest(data) ==
    LET token == Unmarshal(TrimPrefix(data, DataPrefix))
    IN  IF token.err THEN "" ELSE token.YouChatToken

\* What the data line adds to the answer (main.go 323-330).
NsToken(data) ==
    IF ~HasPrefix(data, DataPrefix)
    THEN ""
    ELSE LET token == Unmarshal(TrimPrefix(data, DataPrefix))
         IN  IF token.err THEN "" ELSE token.YouChatToken

\* The data line of a token event (main.go 321-330): the result of the
\* second Scan is not looked at.
NsData(r) ==
    /\ pc[r] = "ns_data"
    /\ \E o \in ScanResults(r) :
        /\ TakeScan(r, o)
        /\ fullResponse' = [fullResponse EXCEPT ![r] = @ \o NsToken(o.sc.tok)]
    /\ pc' = [pc EXCEPT ![r] = "ns_scan"]
    /\ UNCHANGED <<req, openAIReq, originalModel, youReq, calls, chunks,
                   connected, response, fn>>

\* ScannerErr that never reports the read error.
ScannerErrDropped(sc) == FALSE

\* scanner.Err() != nil (main.go 334): the end of the body is no error.
ScannerErr(sc) == sc.err

\* After the loop (main.go 334-361).  The response fits the ResponseWriter's
\* buffer, so Encode's write does not fail.
NsRespond(r) ==
    /\ pc[r] = "ns_end"
    /\ IF ScannerErr(scanner[r])
       THEN response' = [response EXCEPT ![r] = Plain(500, "Error reading response")]
       ELSE \E v \in LoadOriginalModel :
            \E m \in reverseMapModelName(mapModelName(v)) :
               response' = [response EXCEPT ![r] =
                   Answer(200, "", "chat.completion", m, fullResponse[r], "stop")]
    /\ pc' = [pc EXCEPT ![r] = "done"]
    /\ UNCHANGED <<req, openAIReq, originalModel, youReq, calls, scanner, lines,
                   left, fullResponse, chunks, connected, fn>>

\* --------------------------------------------------- handleStreamingResponse
\* client.Do (main.go 366-372).
StDo(r) ==
    /\ pc[r] = "st_do"
    /\ calls' = [calls EXCEPT ![r] = @ + 1]
    /\ \E ok \in BOOLEAN :
        IF ok
        THEN /\ pc' = [pc EXCEPT ![r] = "st_scan"]
             /\ UNCHANGED response
        ELSE /\ pc' = [pc EXCEPT ![r] = "done"]
             /\ response' = [response EXCEPT ![r] = Plain(500, "err.Error()")]
    /\ UNCHANGED <<req, openAIReq, originalModel, youReq, scanner, lines, left,
                   fullResponse, chunks, connected, fn>>

\* The loop condition and the marker test (main.go 381-384); when the loop
\* ends the handler returns and the event stream is closed.
StScan(r) ==
    /\ pc[r] = "st_scan"
    /\ \E o \in ScanResults(r) :
        /\ TakeScan(r, o)
        /\ pc' = [pc EXCEPT ![r] =
              IF ~o.ok THEN "done"
              ELSE IF HasPrefix(o.sc.tok, EventMarker) THEN "st_data"
              ELSE "st_scan"]
        /\ response' = [response EXCEPT ![r] =
              IF ~o.ok THEN Plain(200, "text/event-stream") ELSE @]
    /\ UNCHANGED <<req, openAIReq, originalModel, youReq, calls, fullResponse,
                   chunks, connected, fn>>

\* ChunkFinishReason of a closing chunk.
ChunkFinishReasonStop == "stop"

\* The finish marker of a streamed chunk (main.go 403).
ChunkFinishReason == ""

\* The token of a data line (main.go 388-389): Unmarshal's error is dropped.
StToken(data) == Unmarshal(TrimPrefix(data, DataPrefix)).YouChatToken

\* StData that takes a data line that is a marker for the next event.
StDataRescan(r) ==
    /\ pc[r] = "st_data"
    /\ \E o \in ScanResults(r) :
        /\ TakeScan(r, o)
        /\ pc' = [pc EXCEPT ![r] =
              IF o.ok /\ HasPrefix(o.sc.tok, EventMarker)
              THEN "st_data" ELSE "st_scan"]
        /\ \E v \in LoadOriginalModel :
           \E m \in reverseMapModelName(mapModelName(v)) :
              chunks' = [chunks EXCEPT ![r] = Append(@,
                  [resp |-> Answer(200, "", "chat.completion.chunk", m,
                                   StToken(o.sc.tok), ChunkFinishReason),
                   ok |-> connected[r],
                   at |-> Len(lines'[r])])]
    /\ UNCHANGED <<req, openAIReq, originalModel, youReq, calls, fullResponse,
                   connected, response, fn>>

\* The data line of a token event and its chunk (main.go 385-410).  Neither
\* the second Scan's result nor the result of the write is looked at; a write
\* on a closed connection fails.
StData(r) ==
    /\ pc[r] = "st_data"
    /\ \E o \in ScanResults(r) :
        /\ TakeScan(r, o)
        /\ \E v \in LoadOriginalModel :
           \E m \in reverseMapModelName(mapModelName(v)) :
              chunks' = [chunks EXCEPT ![r] = Append(@,
                  [resp |-> Answer(200, "", "chat.completion.chunk", m,
                                   StToken(o.sc.tok), ChunkFinishReason),
                   ok |-> connected[r],
                   at |-> Len(lines'[r])])]
    /\ pc' = [pc EXCEPT ![r] = "st_scan"]
    /\ UNCHANGED <<req, openAIReq, originalModel, youReq, calls, fullResponse,
                   connected, response, fn>>

\* The client of a streaming request goes away.
ClientDisconnect(r) ==
    /\ pc[r] \in {"st_do", "st_scan", "st_data"}
    /\ connected[r]
    /\ connected' = [connected EXCEPT ![r] = FALSE]
    /\ UNCHANGED <<pc, req, openAIReq, originalModel, youReq, calls, scanner,
                   lines, left, fullResponse, chunks, response, fn>>

\* ------------------------------------------------------------ specifications
\* A step of request r's Handler invocation.
HandlerStep(r) ==
    \/ HandlerGate(r)
    \/ StoreFirstWord(r)
    \/ StoreSecondWord(r)
    \/ HandlerBuild(r)
    \/ NsDo(r)
    \/ NsScan(r)
    \/ NsData(r)
    \/ NsRespond(r)
    \/ StDo(r)
    \/ StScan(r)
    \/ StData(r)

Next ==
    \E r \in Req :
        \/ HandlerStep(r)
        \/ ClientDisconnect(r)

\* One authorised chat request, streaming or not, over every upstream body of
\* at most MaxLines lines.
ChatRequest(model, messages, stream) ==
    [path |-> "/v1/chat/completions", method |-> "POST", auth |-> "Bearer tok",
     body |-> [valid |-> TRUE, messages |-> messages, stream |-> stream,
               model |-> model]]

Hi == <<[Role |-> "user", Content |-> "Hi"]>>

Init ==
    \E stream \in BOOLEAN :
        InitWith([r \in Req |-> IF r = 1 THEN ChatRequest("gpt-4o", Hi, stream)
                                ELSE NoRequest],
                 {1}, MaxLines)

Spec == Init /\ [][Next]_vars

\* The same runs, with every invocation taking its next step: a goroutine
\* that can run is run, and a Scan on a finite upstream body returns (a
\* line, the end of the body or an error).  The client owes no step.
SpecLive == Init /\ [][Next]_vars /\ \A r \in Req : WF_vars(HandlerStep(r))

\* Every request of a small vocabulary, served alone, over upstream bodies of
\* at most MaxLinesShort lines: the routes, the preflight, authorization
\* headers with and without the Bearer scheme, bodies that are no JSON,
\* message lists of each role with and without content (the empty list
\* too), and every model name of the table next to unknown ones.
Roles == {"user", "assistant", "system"}
Contents == {"", "Hi"}
Messages == [Role : Roles, Content : Contents]

RECURSIVE SeqsUpTo(_, _)
SeqsUpTo(S, n) ==
    IF n = 0 THEN {<<>>}
    ELSE LET shorter == SeqsUpTo(S, n - 1)
         IN  shorter \cup {Append(q, x) : q \in shorter, x \in S}

UnknownModels == {"", "no-such-model", "GPT-4o", "o1-pro"}
Bodies ==
    {InvalidBody}
    \cup {[valid |-> TRUE, messages |-> ms, stream |-> st, model |-> m] :
            ms \in SeqsUpTo(Messages, MaxMsgs), st \in BOOLEAN,
            m \in {"gpt-4o"}}
    \cup {[valid |-> TRUE, messages |-> Hi, stream |-> st, model |-> m] :
            st \in BOOLEAN, m \in ModelKeys \cup UnknownModels}
Requests ==
    [path : {"/v1/chat/completions", "/v1/models", "/"},
     method : {"POST", "OPTIONS"},
     auth : {"Bearer tok", "Basic tok", "bearer tok", ""},
     body : Bodies]

InitHandler ==
    \E rq \in Requests :
        InitWith([r \in Req |-> IF r = 1 THEN rq ELSE NoRequest], {1},
                 MaxLinesShort)

SpecHandler == InitHandler /\ [][Next]_vars

\* Two authorised chat requests naming different models, served at the same
\* time: net/http runs each Handler invocation on a goroutine of its own.
InitConc ==
    \E s1 \in BOOLEAN, s2 \in BOOLEAN :
        InitWith([r \in Req |->
                     IF r = 1 THEN ChatRequest("gpt-4o", Hi, s1)
                     ELSE IF r = 2 THEN ChatRequest("claude-3-opus", Hi, s2)
                     ELSE NoRequest],
                 {1, 2}, MaxLinesShort)

SpecConc == InitConc /\ [][Next]_vars

\* The two model-name functions applied to every name of interest: the keys
\* and the values of the table and names that are in neither.
ModelNames == ModelKeys \cup ModelValues \cup UnknownModels

ApplyMapModelName(x) ==
    /\ fn' = [name |-> "mapModelName", arg |-> x, res |-> mapModelName(x)]
    /\ UNCHANGED <<pc, req, openAIReq, originalModel, youReq, calls, scanner,
                   lines, left, fullResponse, chunks, connected, response>>

ApplyReverseMapModelName(y) ==
    /\ \E m \in reverseMapModelName(y) :
          fn' = [name |-> "reverseMapModelName", arg |-> y, res |-> m]
    /\ UNCHANGED <<pc, req, openAIReq, originalModel, youReq, calls, scanner,
                   lines, left, fullResponse, chunks, connected, response>>

InitMap == InitWith([r \in Req |-> NoRequest], {}, 0)

NextMap ==
    \E x \in ModelNames :
        \/ ApplyMapModelName(x)
        \/ ApplyReverseMapModelName(x)

SpecMap == InitMap /\ [][NextMap]_vars

\* ================================================================== claims
\* The request of slot r finished on the non-streaming path after its
\* upstream body ended without a read error.
NsEnded(r) ==
    /\ pc[r] = "done"
    /\ ~openAIReq[r].Stream
    /\ scanner[r].done
    /\ ~scanner[r].err

DataLine(t) == DataPrefix \o TokenJSON(t)

\* C1: on the non-streaming path, for an upstream body made of a well-formed
\* token pair, a token event whose data line is malformed, and another
\* well-formed pair, the answer is 200 and its content is the first token's
\* text followed by the second's, nothing else.
C1_MalformedEventSkipped ==
    \A r \in Req : \A t1 \in TokenTexts, t2 \in TokenTexts :
        \A bad \in UpstreamLines \ GoodData :
            (/\ NsEnded(r)
             /\ lines[r] = <<EventMarker, DataLine(t1), EventMarker, bad,
                             EventMarker, DataLine(t2)>>)
            => /\ response[r].status = 200
               /\ response[r].Content = t1 \o t2

C1_Witness ==
    /\ NsEnded(1)
    /\ lines[1] = <<EventMarker, DataLine("Hel"), EventMarker, BadData,
                    EventMarker, DataLine("lo!")>>
    /\ response[1].Content = "Hello!"

\* The data lines of the token events of a body, in order: a marker line met
\* while looking for an event, paired with the one line after it.  A marker
\* that ends the body is no pair.
RECURSIVE TokenEvents(_)
TokenEvents(ls) ==
    IF Len(ls) = 0 THEN <<>>
    ELSE IF HasPrefix(ls[1], EventMarker)
    THEN IF Len(ls) = 1 THEN <<>>
         ELSE <<ls[2]>> \o TokenEvents(SubSeq(ls, 3, Len(ls)))
    ELSE TokenEvents(Tail(ls))

\* C2: on the streaming path, a body with exactly K token events yields
\* exactly K chunk writes before the stream is closed, the i-th carrying the
\* text of the i-th token event, in arrival order.
C2_ChunkPerTokenEvent ==
    \A r \in Req :
        (/\ pc[r] = "done"
         /\ openAIReq[r].Stream
         /\ response[r].status = 200)
        => LET events == TokenEvents(lines[r])
           IN  /\ Len(chunks[r]) = Len(events)
               /\ \A i \in 1..Len(events) : \A t \in TokenTexts :
                     (events[i] = DataLine(t) /\ i <= Len(chunks[r]))
                     => chunks[r][i].resp.Content = t

\* The request of slot r was received and its Authorization header does not
\* start with "Bearer ".
NoBearer(r) == pc[r] # "absent" /\ ~HasPrefix(req[r].auth, "Bearer ")

\* C3 as stated: a request whose Authorization header does not start with
\* "Bearer " causes no outbound request and is answered with 401.
C3_Original ==
    \A r \in Req :
        NoBearer(r)
        => /\ calls[r] = 0
           /\ pc[r] = "done" => response[r].status = 401

\* C3, amended: such a request never causes an outbound request, and it is
\* answered with 401 when it is a chat-completions request other than an
\* OPTIONS preflight; the other routes and the preflight are answered with
\* 200 before the header is looked at.
C3_AuthorizationGate ==
    \A r \in Req :
        NoBearer(r)
        => /\ calls[r] = 0
           /\ ~youReq[r].built
           /\ pc[r] \in {"start", "done"}
           /\ pc[r] = "done"
              => response[r].status =
                    IF req[r].path \in ChatPaths /\ req[r].method # "OPTIONS"
                    THEN 401 ELSE 200

C3_Witness ==
    /\ pc[1] = "done"
    /\ req[1].auth = "Basic tok"
    /\ req[1].path = "/v1/chat/completions"
    /\ req[1].method = "POST"
    /\ req[1].body.valid
    /\ response[1] = Plain(401, "Missing or invalid authorization header")
    /\ calls[1] = 0

\* The model name a response to request r reports when only r's own model
\* field decides it.
OwnModel(r) ==
    IF req[r].body.model \in ModelKeys THEN req[r].body.model ELSE "deepseek-chat"

\* C4: whatever the interleaving of the requests' steps, the model name in a
\* request's response, or in each of its chunks, is decided by that
\* request's own model field.
C4_ModelFromOwnRequest ==
    \A r \in Req :
        /\ response[r].Object = "chat.completion" => response[r].Model = OwnModel(r)
        /\ \A i \in 1..Len(chunks[r]) : chunks[r][i].resp.Model = OwnModel(r)

\* C5: on the streaming path, after the first chunk write that fails no
\* further line is read from the upstream body and no further chunk write is
\* attempted.
C5_AbortOnFailedWrite ==
    \A r \in Req : \A i \in 1..Len(chunks[r]) :
        ~chunks[r][i].ok
        => /\ i = Len(chunks[r])
           /\ Len(lines[r]) = chunks[r][i].at

\* C6: in both decode loops, when the body ends right after a token-event
\* marker (the Scan for the data line finds no line), the step adds nothing
\* to the answer text and writes no chunk.
C6_TruncatedPairAddsNothing ==
    [][\A r \in Req :
          (/\ pc[r] \in {"ns_data", "st_data"}
           /\ pc'[r] # pc[r]
           /\ lines'[r] = lines[r])
          => /\ fullResponse'[r] = fullResponse[r]
             /\ chunks'[r] = chunks[r]]_vars

\* C7: both functions have a result for every name; mapModelName returns
\* "deepseek_v3" for every name that is no key of modelMap, and
\* reverseMapModelName returns "deepseek-chat" for every name that is no
\* value of it.
C7_MappingDefaults ==
    /\ \A x \in ModelNames :
          ENABLED ApplyMapModelName(x) /\ ENABLED ApplyReverseMapModelName(x)
    /\ (fn.name = "mapModelName" /\ fn.arg \notin ModelKeys)
       => fn.res = "deepseek_v3"
    /\ (fn.name = "reverseMapModelName" /\ fn.arg \notin ModelValues)
       => fn.res = "deepseek-chat"

C7_Witness ==
    /\ fn.name = "reverseMapModelName"
    /\ fn.arg = "no-such-model"
    /\ fn.res = "deepseek-chat"

\* C8: no two keys of modelMap share an upstream name, and a request served
\* alone that names a key of modelMap is answered with that name as the
\* model of its response and of each of its chunks (the round trip through
\* mapModelName and reverseMapModelName gives the key back).
C8_RoundTrip ==
    /\ \A k1 \in ModelKeys, k2 \in ModelKeys :
          modelMap[k1] = modelMap[k2] => k1 = k2
    /\ \A r \in Req :
          req[r].body.model \in ModelKeys
          => /\ response[r].Object = "chat.completion"
                => response[r].Model = req[r].body.model
             /\ \A i \in 1..Len(chunks[r]) :
                   chunks[r][i].resp.Model = req[r].body.model

C8_Witness ==
    /\ pc[1] = "done"
    /\ req[1].body.model = "claude-3-7-sonnet-think"
    /\ response[1].Object = "chat.completion"
    /\ response[1].Model = "claude-3-7-sonnet-think"
    /\ youReq[1].selectedAiModel = "claude_3_7_sonnet_thinking"

\* C9 as stated: the history sent upstream has the length and the order of
\* the message list, and in every record exactly one of question and answer
\* is non-empty, the role deciding which.
C9_Original ==
    \A r \in Req :
        calls[r] > 0
        => LET ms == openAIReq[r].Messages
               h == youReq[r].chatHistory
           IN  /\ Len(h) = Len(ms)
               /\ \A i \in 1..Len(ms) :
                     IF ms[i].Role = "assistant"
                     THEN h[i].answer # "" /\ h[i].question = ""
                     ELSE h[i].question # "" /\ h[i].answer = ""

\* C9, amended: the history sent upstream has the length and the order of
\* the message list; in every record the field the role selects (answer for
\* assistant, question for any other role) holds the message's content and
\* the other field is empty, so exactly one of them is non-empty whenever
\* the content is.
C9_HistoryProjection ==
    \A r \in Req :
        calls[r] > 0
        => LET ms == openAIReq[r].Messages
               h == youReq[r].chatHistory
           IN  /\ Len(h) = Len(ms)
               /\ \A i \in 1..Len(ms) :
                     IF ms[i].Role = "assistant"
                     THEN h[i].answer = ms[i].Content /\ h[i].question = ""
                     ELSE h[i].question = ms[i].Content /\ h[i].answer = ""

C9_Witness ==
    /\ calls[1] > 0
    /\ openAIReq[1].Messages = <<[Role |-> "system", Content |-> "Hi"],
                                 [Role |-> "assistant", Content |-> "Hi"]>>
    /\ youReq[1].chatHistory = <<[question |-> "Hi", answer |-> ""],
                                 [question |-> "", answer |-> "Hi"]>>

\* C10: on the non-streaming path, when reading the upstream body ends with
\* a read error the request is answered with 500 "Error reading response"
\* and with no answer content, whatever was decoded before the error.
C10_ReadErrorFailsRequest ==
    \A r \in Req :
        (/\ pc[r] = "done"
         /\ ~openAIReq[r].Stream
         /\ scanner[r].err)
        => response[r] = Plain(500, "Error reading response")

C10_Witness ==
    /\ pc[1] = "done"
    /\ ~openAIReq[1].Stream
    /\ scanner[1].err
    /\ fullResponse[1] = "Hello!"
    /\ response[1].status = 500
    /\ response[1].Content = ""


\* C11: in both decode loops, a token event whose data line fails JSON
\* parsing (a data line whose JSON is cut short, or a line that is no JSON
\* at all) adds no text to the answer and produces no chunk, and the loop
\* goes on looking for the next event.
C11_UnparsableEventDropped ==
    [][\A r \in Req :
          (/\ pc[r] \in {"ns_data", "st_data"}
           /\ pc'[r] # pc[r]
           /\ Len(lines'[r]) = Len(lines[r]) + 1
           /\ lines'[r][Len(lines'[r])] \in {BadData, EventMarker})
          => /\ fullResponse'[r] = fullResponse[r]
             /\ chunks'[r] = chunks[r]
             /\ pc'[r] \in {"ns_scan", "st_scan"}]_vars


\* The upstream name the table gives a client model name.
UpstreamModel(m) == IF m \in ModelKeys THEN modelMap[m] ELSE "deepseek_v3"

\* C12: for every request with N >= 1 messages the upstream query has q =
\* the content of the final message, pastChatLength = N - 1,
\* selectedAiModel = the upstream name of the request's model, and chat =
\* the JSON of the full N-record history; for [user "Hi"] and "gpt-4o":
\* pastChatLength 0, selectedAiModel "gpt_4o", chat [{answer "", question
\* "Hi"}].  (The query values are compared before URL encoding.)
C12_UpstreamQuery ==
    \A r \in Req :
        youReq[r].built
        => LET ms == openAIReq[r].Messages
               n == Len(ms)
               y == youReq[r]
           IN  /\ n >= 1
               /\ y.q = ms[n].Content
               /\ y.pastChatLength = n - 1
               /\ y.selectedAiModel = UpstreamModel(openAIReq[r].Model)
               /\ Len(y.chatHistory) = n
               /\ y.chat = Marshal(y.chatHistory)
               /\ (ms = Hi /\ openAIReq[r].Model = "gpt-4o")
                  => /\ y.pastChatLength = 0
                     /\ y.selectedAiModel = "gpt_4o"
                     /\ y.chat = "[{\"answer\":\"\",\"question\":\"Hi\"}]"
               /\ ms = <<[Role |-> "user", Content |-> "Hi"],
                         [Role |-> "assistant", Content |-> ""]>>
                  => y.chat = "[{\"answer\":\"\",\"question\":\"Hi\"}," \o
                              "{\"answer\":\"\",\"question\":\"\"}]"

C12_Witness ==
    /\ calls[1] = 1
    /\ openAIReq[1].Messages = <<[Role |-> "assistant", Content |-> "Hi"],
                                 [Role |-> "user", Content |-> ""]>>
    /\ youReq[1].q = ""
    /\ youReq[1].pastChatLength = 1
    /\ youReq[1].selectedAiModel = "gpt_4o"
    /\ youReq[1].chat = "[{\"answer\":\"Hi\",\"question\":\"\"}," \o
                        "{\"answer\":\"\",\"question\":\"\"}]"


\* The number of marker lines of a body that are met while looking for an
\* event (a line taken as a data line is not looked at), and whether the
\* body stops between a marker and its data line.
RECURSIVE EventsSeen(_, _)
EventsSeen(ls, expecting) ==
    IF Len(ls) = 0 THEN 0
    ELSE IF expecting THEN EventsSeen(Tail(ls), FALSE)
    ELSE IF HasPrefix(ls[1], EventMarker) THEN 1 + EventsSeen(Tail(ls), TRUE)
    ELSE EventsSeen(Tail(ls), FALSE)

RECURSIVE ExpectingData(_, _)
ExpectingData(ls, expecting) ==
    IF Len(ls) = 0 THEN expecting
    ELSE ExpectingData(Tail(ls),
                       IF expecting THEN FALSE
                       ELSE HasPrefix(ls[1], EventMarker))

\* C13: every chunk the streaming path writes carries an empty finish
\* marker, and when the stream is closed there is one chunk per event met
\* and none after them (no closing chunk); the answer of a successful
\* non-streaming request carries the finish marker "stop".
C13_FinishMarkers ==
    \A r \in Req :
        /\ \A i \in 1..Len(chunks[r]) :
              /\ chunks[r][i].resp.FinishReason = ""
              /\ chunks[r][i].resp.Object = "chat.completion.chunk"
        /\ Len(chunks[r]) <= EventsSeen(lines[r], FALSE)
        /\ (pc[r] = "done" /\ openAIReq[r].Stream /\ response[r].status = 200)
           => Len(chunks[r]) = EventsSeen(lines[r], FALSE)
        /\ (pc[r] = "done" /\ ~openAIReq[r].Stream /\ response[r].status = 200)
           => /\ response[r].Object = "chat.completion"
              /\ response[r].FinishReason = "stop"
              /\ chunks[r] = <<>>

C13_Witness ==
    /\ pc[1] = "done"
    /\ openAIReq[1].Stream
    /\ lines[1] = <<EventMarker, DataLine("Hel"), EventMarker, DataLine("lo!")>>
    /\ Len(chunks[1]) = 2
    /\ chunks[1][2].resp.Content = "lo!"
    /\ chunks[1][2].resp.FinishReason = ""


\* The request of slot r is a chat-completions request: a request to one of
\* the chat paths that is no OPTIONS preflight.
ChatCompletion(r) ==
    /\ pc[r] # "absent"
    /\ req[r].path \in ChatPaths
    /\ req[r].method # "OPTIONS"

\* C14: on a chat-completions request the authorization check comes before
\* the decoding of the body, and the decoding before any upstream call: an
\* authorised request whose body does not decode is answered with 400 and
\* causes no outbound request; a request that is both unauthorised and
\* undecodable is answered with 401, not 400.
C14_GateOrder ==
    \A r \in Req :
        (ChatCompletion(r) /\ ~req[r].body.valid)
        => /\ calls[r] = 0
           /\ ~youReq[r].built
           /\ pc[r] \in {"start", "done"}
           /\ pc[r] = "done"
              => response[r] =
                    IF HasPrefix(req[r].auth, "Bearer ")
                    THEN Plain(400, "Invalid request body")
                    ELSE Plain(401, "Missing or invalid authorization header")

C14_Witness ==
    /\ pc[1] = "done"
    /\ req[1].path = "/v1/chat/completions"
    /\ req[1].method = "POST"
    /\ req[1].auth = "Basic tok"
    /\ ~req[1].body.valid
    /\ response[1].status = 401
    /\ calls[1] = 0


\* The request of slot r passes the authorization and the decoding gates.
PassesGates(r) ==
    /\ ChatCompletion(r)
    /\ HasPrefix(req[r].auth, "Bearer ")
    /\ req[r].body.valid

\* C15: on every path through Handler at most one outbound request is
\* attempted for a client request, and exactly one once Handler is through
\* with a request that passes the authorization and the decoding gates.
C15_OneUpstreamCall ==
    \A r \in Req :
        /\ calls[r] <= 1
        /\ (pc[r] \in {"done", "panic"} /\ PassesGates(r)) => calls[r] = 1
        /\ (pc[r] \in {"done", "panic"} /\ ~PassesGates(r)) => calls[r] = 0


\* C16: after a marker line exactly one following line is taken as the
\* event's data line, whatever it holds, and the decoder is back to looking
\* for the next marker; a line taken as a data line is never read as a
\* marker.  So, while the body lasts, a loop waits for a data line exactly
\* when the lines read so far stop between a marker and its data line, and
\* the streaming loop has written one chunk per completed pair.
C16_LinePairing ==
    \A r \in Req :
        (pc[r] \in {"ns_scan", "ns_data", "st_scan", "st_data"}
            /\ ~scanner[r].done)
        => /\ (pc[r] \in {"ns_data", "st_data"}) = ExpectingData(lines[r], FALSE)
           /\ pc[r] = "st_scan" => Len(chunks[r]) = EventsSeen(lines[r], FALSE)
           /\ pc[r] = "st_data" => Len(chunks[r]) + 1 = EventsSeen(lines[r], FALSE)

C16_Witness ==
    /\ pc[1] = "st_scan"
    /\ ~scanner[1].done
    /\ lines[1] = <<EventMarker, EventMarker, DataLine("Hel"), EventMarker,
                    DataLine("lo!")>>
    /\ Len(chunks[1]) = 2
    /\ chunks[1][1].resp.Content = ""
    /\ chunks[1][2].resp.Content = "lo!"


LoopPcs == {"ns_scan", "ns_data", "st_scan", "st_data"}

\* C17: both decode loops terminate on every finite upstream body, whether
\* it ends by the end of the stream or by a read error: every request is
\* eventually done; a loop iteration that goes on has taken exactly one
\* more line from the body, and the lines already read stay as they are;
\* and a request that is done has its one response (the answer or a 500 on
\* the non-streaming path), which never changes again.
C17_DecodeLoopsTerminate ==
    /\ <>(\A r \in Req : pc[r] \in {"absent", "done"})
    /\ [][\A r \in Req :
             /\ (/\ pc[r] \in LoopPcs
                 /\ pc'[r] \in LoopPcs
                 /\ (pc'[r] # pc[r] \/ scanner'[r] # scanner[r])
                 /\ ~scanner'[r].done)
                => /\ lines'[r] = Append(lines[r], scanner'[r].tok)
                   /\ left'[r] = left[r] - 1
             /\ Len(lines'[r]) >= Len(lines[r])
             /\ SubSeq(lines'[r], 1, Len(lines[r])) = lines[r]
             /\ pc[r] = "done"
                => pc'[r] = "done" /\ response'[r] = response[r]
             /\ (pc[r] # "done" /\ pc'[r] = "done")
                => /\ response'[r].status \in {200, 500}
                   /\ response[r] = NoResponse]_vars

C17_Witness ==
    /\ pc[1] = "done"
    /\ ~openAIReq[1].Stream
    /\ scanner[1].done
    /\ scanner[1].err
    /\ Len(lines[1]) = MaxLines
    /\ left[1] = 0
    /\ response[1].status = 500


\* The text of the chunks written, put together in the order of the writes.
RECURSIVE ChunkText(_)
ChunkText(cs) ==
    IF Len(cs) = 0 THEN "" ELSE cs[1].resp.Content \o ChunkText(Tail(cs))

\* C18: the two assemblers agree on every upstream body: when a
\* non-streaming and a streaming request have read the same lines to the
\* end, without a read error, the contents of the chunks written put
\* together are the content of the non-streaming answer.
C18_AssemblersAgree ==
    \A a \in Req, b \in Req :
        (/\ pc[a] = "done" /\ ~openAIReq[a].Stream /\ response[a].status = 200
         /\ pc[b] = "done" /\ openAIReq[b].Stream /\ response[b].status = 200
         /\ scanner[a].done /\ ~scanner[a].err
         /\ scanner[b].done /\ ~scanner[b].err
         /\ lines[a] = lines[b])
        => ChunkText(chunks[b]) = response[a].Content


\* C19: Handler never takes the final element of an empty message list: an
\* authorised chat-completions request whose body decodes, the empty or
\* absent message list included, does not fault at the last-message
\* extraction, and Handler is through with it only with a response written.
C19_NoFaultOnEmptyMessages ==
    \A r \in Req :
        PassesGates(r)
        => /\ pc[r] # "panic"
           /\ pc[r] = "done" => response[r] # NoResponse

====
